---- MODULE Spec2Model ----
(***************************************************************************)
(* examples/mnist/main.py: the command line parser (get_args), the         *)
(* composition script (main) and the callbacks of MyUnit, driven by the    *)
(* fit loop of torchtnt.framework.                                         *)
(*                                                                         *)
(* Python values are modelled as follows.                                  *)
(*   Optional[T]   the empty set for None, {x} for the value x             *)
(*   float         an integer number of tenths (1.0 is 10, 0.7 is 7)       *)
(*   objects       a record of their fields; where identity matters an    *)
(*                 "id" field drawn from the allocation counter            *)
(*   tensors       the loss of the k-th training step is k; the loss of    *)
(*                 an evaluation step is the number of that step           *)
(***************************************************************************)
EXTENDS Integers, Sequences, FiniteSets

VARIABLES
    pc,              \* the statement of main (or of the fit loop) to run next
    argv,            \* sys.argv[1:]
    args,            \* Optional[Namespace]
    seeded,          \* Optional[int]: the argument of the seed() call
    env_device,      \* Optional[device type]: what init_from_env returned
    device,          \* Optional[device type]
    tb_logger,       \* Optional[TensorBoardLogger]
    on_cuda,         \* Optional[bool]
    datasets,        \* Optional[(train_dataset, eval_dataset)]
    loaders,         \* Optional[(train_dataloader, eval_dataloader)]
    module,          \* Optional[Net]
    train_accuracy,  \* Optional[MulticlassAccuracy]
    my_unit,         \* Optional[MyUnit]
    state,           \* Optional[State] of the fit loop
    stdout,          \* what main printed
    files,           \* the files torch.save wrote
    events,          \* the statements of main executed so far, in order
    exc,             \* Optional[statement whose exception left main]
    allocs,          \* number of objects constructed so far
    fit_calls        \* number of calls of fit

vars == <<pc, argv, args, seeded, env_device, device, tb_logger, on_cuda, datasets, loaders,
          module, train_accuracy, my_unit, state, stdout, files, events, exc,
          allocs, fit_calls>>

None == {}
Some(x) == {x}
The(opt) == CHOOSE x \in opt : TRUE

\* ------------------------------------------------------------------ bounds

\* argv holds at most MaxFlags options
MaxFlags == 1
\* each dataset has at most this many samples
MaxTrainSize == 9
MaxEvalSize == 5

\* --------------------------------------------------- get_args (190 - 257)

DefaultSeed == 1
DefaultBatchSize == 64
DefaultTestBatchSize == 1000
DefaultEpochs == 14
\* tenths
DefaultLr == 10
\* tenths
DefaultGamma == 7
DefaultLogFrequencySteps == 10
DefaultEvalMaxStepsPerEpoch == 20

IntFlags == {"--seed", "--batch-size", "--test-batch-size", "--epochs",
             "--log-frequency-steps", "--eval_max_steps_per_epoch"}
FloatFlags == {"--lr", "--gamma"}
ChoiceFlags == {"--precision"}
ValueFlags == IntFlags \cup FloatFlags \cup ChoiceFlags
StoreTrueFlags == {"--save-model"}
AllFlags == ValueFlags \cup StoreTrueFlags

\* argparse's dest of an option: the dashes of its name become underscores
dest(flag) ==
    CASE flag = "--seed" -> "seed"
      [] flag = "--batch-size" -> "batch_size"
      [] flag = "--test-batch-size" -> "test_batch_size"
      [] flag = "--epochs" -> "epochs"
      [] flag = "--lr" -> "lr"
      [] flag = "--gamma" -> "gamma"
      [] flag = "--save-model" -> "save_model"
      [] flag = "--log-frequency-steps" -> "log_frequency_steps"
      [] flag = "--precision" -> "precision"
      [] flag = "--eval_max_steps_per_epoch" -> "eval_max_steps_per_epoch"

\* The namespace of an empty command line: every option's default=.
Defaults ==
    [seed |-> DefaultSeed,
     batch_size |-> DefaultBatchSize,
     test_batch_size |-> DefaultTestBatchSize,
     epochs |-> DefaultEpochs,
     lr |-> DefaultLr,
     gamma |-> DefaultGamma,
     save_model |-> FALSE,
     log_frequency_steps |-> DefaultLogFrequencySteps,
     precision |-> None,
     eval_max_steps_per_epoch |-> DefaultEvalMaxStepsPerEpoch]

\* The value tokens a command line is built from.
ValueTokens == {"0", "2", "0.5", "x", "fp16", "bf16", "fp32"}

\* type=int: Python's int(token); the empty set when it raises ValueError
int(tok) ==
    CASE tok = "0" -> Some(0)
      [] tok = "2" -> Some(2)
      [] OTHER -> None

\* type=float: Python's float(token), in tenths
float(tok) ==
    CASE tok = "0" -> Some(0)
      [] tok = "2" -> Some(20)
      [] tok = "0.5" -> Some(5)
      [] OTHER -> None

\* type=str, choices=["fp16", "bf16"]
PrecisionChoices == {"fp16", "bf16"}
choice(tok) == IF tok \in PrecisionChoices THEN Some(tok) ELSE None

\* The converted value of an option's argument, None when argparse rejects it.
\* --precision stores the string itself; its default is None, so the stored
\* value is kept as an Optional.
convert(flag, tok) ==
    IF flag \in IntFlags THEN int(tok)
    ELSE IF flag \in FloatFlags THEN float(tok)
    ELSE IF choice(tok) = None THEN None ELSE Some(choice(tok))

Rejected == [ok |-> FALSE, ns |-> Defaults]

\* parser.parse_args on the tokens left, ns the namespace so far: a later
\* occurrence of an option overwrites an earlier one.
RECURSIVE parse_args_from(_, _)
parse_args_from(toks, ns) ==
    IF toks = << >> THEN [ok |-> TRUE, ns |-> ns]
    ELSE LET flag == Head(toks)
             rest == Tail(toks)
         IN  IF flag \in StoreTrueFlags
             THEN parse_args_from(rest, [ns EXCEPT ![dest(flag)] = TRUE])
             ELSE IF flag \in ValueFlags
             THEN IF rest = << >> \/ Head(rest) \in AllFlags
                  THEN Rejected                  \* expected one argument
                  ELSE IF convert(flag, Head(rest)) = None
                  THEN Rejected                  \* invalid value or choice
                  ELSE parse_args_from(Tail(rest),
                           [ns EXCEPT ![dest(flag)] = The(convert(flag, Head(rest)))])
             ELSE Rejected                       \* unrecognized arguments

get_args(toks) == parse_args_from(toks, Defaults)

\* The command lines: up to MaxFlags options, each a flag alone, a flag with a
\* value token, or a stray value token.
Options ==
    {<<f>> : f \in AllFlags}
        \cup {<<f, v>> : f \in ValueFlags, v \in ValueTokens}
        \cup {<<v>> : v \in ValueTokens}

RECURSIVE Argvs(_)
Argvs(n) ==
    IF n = 0 THEN {<< >>}
    ELSE Argvs(n - 1) \cup {a \o o : a \in Argvs(n - 1), o \in Options}

\* ------------------------------------------------------ main (124 - 187)

DeviceTypes == {"cpu", "cuda", "mps"}
ModelPath == "mnist_cnn.pt"
GradientAccumulationSteps == 4
\* clip_grad_norm=1.0, in tenths
ClipGradNorm == 10

\* The statements of main in source order; "save_model" is the if of line 186.
Statements ==
    <<"get_args", "seed", "init_from_env", "mps_check", "tb_logger", "on_cuda",
      "datasets", "dataloaders", "module", "train_accuracy", "my_unit",
      "init_fit_state", "fit", "print", "save_model">>

IndexOf(stmt) == CHOOSE i \in 1..Len(Statements) : Statements[i] = stmt

\* A variant of following: the summary is printed before fit is called.
following_print_first(stmt) ==
    CASE stmt = "init_fit_state" -> "print"
      [] stmt = "print" -> "fit"
      [] stmt = "fit" -> "save_model"
      [] stmt = "save_model" -> "done"
      [] OTHER -> Statements[IndexOf(stmt) + 1]

\* The statement after stmt; past the last one main returns.
following(stmt) ==
    IF IndexOf(stmt) = Len(Statements) THEN "done"
    ELSE Statements[IndexOf(stmt) + 1]

\* Control leaves statement stmt normally.
Goto(stmt) ==
    /\ pc' = following(stmt)
    /\ events' = Append(events, stmt)

Init ==
    /\ pc = "get_args"
    /\ argv \in Argvs(MaxFlags)
    /\ args = None
    /\ seeded = None
    /\ env_device = None
    /\ device = None
    /\ tb_logger = None
    /\ on_cuda = None
    /\ datasets = None
    /\ loaders = None
    /\ module = None
    /\ train_accuracy = None
    /\ my_unit = None
    /\ state = None
    /\ stdout = << >>
    /\ files = {}
    /\ events = << >>
    /\ exc = None
    /\ allocs = 0
    /\ fit_calls = 0

\* line 126. A rejected command line makes argparse exit (SystemExit), which
\* main does not catch.
GetArgs ==
    /\ pc = "get_args"
    /\ LET r == get_args(argv)
       IN  IF r.ok
           THEN /\ args' = Some(r.ns)
                /\ Goto("get_args")
                /\ exc' = exc
           ELSE /\ pc' = "raised"
                /\ exc' = Some("get_args")
                /\ UNCHANGED <<args, events>>
    /\ UNCHANGED <<argv, env_device, seeded, device, tb_logger, on_cuda, datasets, loaders,
                   module, train_accuracy, my_unit, state, stdout, files, allocs, fit_calls>>

\* line 129
Seed ==
    /\ pc = "seed"
    /\ seeded' = Some(The(args).seed)
    /\ Goto("seed")
    /\ UNCHANGED <<argv, env_device, args, device, tb_logger, on_cuda, datasets, loaders,
                   module, train_accuracy, my_unit, state, stdout, files, exc,
                   allocs, fit_calls>>

\* line 132: the device is the environment's choice
InitFromEnv ==
    /\ pc = "init_from_env"
    /\ \E d \in DeviceTypes :
           /\ env_device' = Some(d)
           /\ device' = Some(d)
    /\ Goto("init_from_env")
    /\ UNCHANGED <<argv, args, seeded, tb_logger, on_cuda, datasets, loaders,
                   module, train_accuracy, my_unit, state, stdout, files, exc,
                   allocs, fit_calls>>

\* A variant of avoid_mps: the device is used as the environment gave it.
avoid_mps_kept(d) == d

\* lines 135 - 136
avoid_mps(d) == IF d = "mps" THEN "cpu" ELSE d

MpsCheck ==
    /\ pc = "mps_check"
    /\ device' = Some(avoid_mps(The(device)))
    /\ Goto("mps_check")
    /\ UNCHANGED <<argv, env_device, args, seeded, tb_logger, on_cuda, datasets, loaders,
                   module, train_accuracy, my_unit, state, stdout, files, exc,
                   allocs, fit_calls>>

\* lines 138 - 139: the log directory is created and the logger opened on it
TbLogger ==
    /\ pc = "tb_logger"
    /\ tb_logger' = Some([id |-> allocs + 1, entries |-> << >>])
    /\ allocs' = allocs + 1
    /\ Goto("tb_logger")
    /\ UNCHANGED <<argv, env_device, args, seeded, device, on_cuda, datasets, loaders,
                   module, train_accuracy, my_unit, state, stdout, files, exc, fit_calls>>

\* line 141
is_cuda(d) == d = "cuda"

OnCuda ==
    /\ pc = "on_cuda"
    /\ on_cuda' = Some(is_cuda(The(device)))
    /\ Goto("on_cuda")
    /\ UNCHANGED <<argv, env_device, args, seeded, device, tb_logger, datasets, loaders,
                   module, train_accuracy, my_unit, state, stdout, files, exc,
                   allocs, fit_calls>>

\* lines 143 - 150: the training set is downloaded, the evaluation set read;
\* their sizes are what the files under ../data hold
Datasets ==
    /\ pc = "datasets"
    /\ \E nt \in {0, MaxTrainSize}, ne \in {MaxEvalSize} :
           datasets' = Some([train |-> nt, eval |-> ne])
    /\ Goto("datasets")
    /\ UNCHANGED <<argv, env_device, args, seeded, device, tb_logger, on_cuda, loaders,
                   module, train_accuracy, my_unit, state, stdout, files, exc,
                   allocs, fit_calls>>

\* DataLoader(dataset, batch_size=, pin_memory=)
DataLoader(size, batch_size, pin_memory) ==
    [size |-> size, batch_size |-> batch_size, pin_memory |-> pin_memory]

\* A variant of train_dataloader_of: the test batch size is used.
train_dataloader_of_test_size(a, ds, cuda) == DataLoader(ds.train, a.test_batch_size, cuda)

\* lines 152 - 157
train_dataloader_of(a, ds, cuda) == DataLoader(ds.train, a.batch_size, cuda)
eval_dataloader_of(a, ds, cuda) == DataLoader(ds.eval, a.test_batch_size, cuda)

\* DataLoader's BatchSampler raises ValueError unless batch_size is positive.
DataLoaders ==
    /\ pc = "dataloaders"
    /\ LET a == The(args)
       IN  IF a.batch_size > 0 /\ a.test_batch_size > 0
           THEN /\ loaders' = Some(
                      [train |-> train_dataloader_of(a, The(datasets), The(on_cuda)),
                       eval |-> eval_dataloader_of(a, The(datasets), The(on_cuda))])
                /\ Goto("dataloaders")
                /\ exc' = exc
           ELSE /\ pc' = "raised"
                /\ exc' = Some("dataloaders")
                /\ UNCHANGED <<loaders, events>>
    /\ UNCHANGED <<argv, env_device, args, seeded, device, tb_logger, on_cuda, datasets,
                   module, train_accuracy, my_unit, state, stdout, files, allocs, fit_calls>>

\* line 159
Module ==
    /\ pc = "module"
    /\ module' = Some([id |-> allocs + 1])
    /\ allocs' = allocs + 1
    /\ Goto("module")
    /\ UNCHANGED <<argv, env_device, args, seeded, device, tb_logger, on_cuda, datasets,
                   loaders, train_accuracy, my_unit, state, stdout, files, exc, fit_calls>>

\* line 160; num_total counts the samples held, resets the reset() calls
MulticlassAccuracy(id, d) ==
    [id |-> id, device |-> d, num_total |-> 0, resets |-> 0]

TrainAccuracy ==
    /\ pc = "train_accuracy"
    /\ train_accuracy' = Some(MulticlassAccuracy(allocs + 1, The(device)))
    /\ allocs' = allocs + 1
    /\ Goto("train_accuracy")
    /\ UNCHANGED <<argv, env_device, args, seeded, device, tb_logger, on_cuda, datasets,
                   loaders, module, my_unit, state, stdout, files, exc, fit_calls>>

\* ------------------------------------------ MyUnit (56 - 121) and its base

\* lines 57 - 73: the keyword arguments AutoUnit keeps, then MyUnit's own
\* fields; the unit starts with no loss, and AutoUnit with no optimizer.
MyUnit(logger, metric, lr, gamma, kwargs) ==
    [module |-> kwargs.module,
     device |-> kwargs.device,
     strategy |-> kwargs.strategy,
     log_frequency_steps |-> kwargs.log_frequency_steps,
     precision |-> kwargs.precision,
     gradient_accumulation_steps |-> kwargs.gradient_accumulation_steps,
     detect_anomaly |-> kwargs.detect_anomaly,
     clip_grad_norm |-> kwargs.clip_grad_norm,
     optimizer |-> None,
     lr_scheduler |-> None,
     num_optimizer_steps_completed |-> 0,
     tb_logger |-> logger.id,
     lr |-> lr,
     gamma |-> gamma,
     train_accuracy |-> metric.id,
     loss |-> None]

\* lines 162 - 175: the unit main builds
my_unit_of(a, logger, metric, net, d) ==
    MyUnit(logger, metric, a.lr, a.gamma,
           [module |-> net.id,
            device |-> d,
            strategy |-> "ddp",
            log_frequency_steps |-> a.log_frequency_steps,
            precision |-> a.precision,
            gradient_accumulation_steps |-> GradientAccumulationSteps,
            detect_anomaly |-> TRUE,
            clip_grad_norm |-> ClipGradNorm])

\* The unit refers to the logger, the metric and the module main built (by
\* id): the objects themselves stay in tb_logger, train_accuracy and module.
MyUnitStmt ==
    /\ pc = "my_unit"
    /\ my_unit' = Some(my_unit_of(The(args), The(tb_logger), The(train_accuracy),
                                  The(module), The(device)))
    /\ Goto("my_unit")
    /\ UNCHANGED <<argv, env_device, args, seeded, device, tb_logger, on_cuda, datasets,
                   loaders, module, train_accuracy, state, stdout, files, exc,
                   allocs, fit_calls>>

\* ------------------------------------------------ torchtnt.framework

\* Progress of a phase of the loop
Progress ==
    [num_epochs_completed |-> 0,
     num_steps_completed |-> 0,
     num_steps_completed_in_epoch |-> 0]

increment_step(p) ==
    [p EXCEPT !.num_steps_completed = @ + 1,
              !.num_steps_completed_in_epoch = @ + 1]

increment_epoch(p) ==
    [p EXCEPT !.num_epochs_completed = @ + 1,
              !.num_steps_completed_in_epoch = 0]

\* init_fit_state(train_dataloader=, eval_dataloader=, max_epochs=,
\* max_train_steps_per_epoch=, max_eval_steps_per_epoch=): the caps are
\* Optional, None meaning no cap; evaluation runs after every training epoch.
init_fit_state(train_dataloader, eval_dataloader, max_epochs, max_train_steps_per_epoch, max_eval_steps_per_epoch) ==
    [train_state |-> [dataloader |-> train_dataloader,
                      max_epochs |-> max_epochs,
                      max_steps_per_epoch |-> max_train_steps_per_epoch,
                      progress |-> Progress],
     eval_state |-> [dataloader |-> eval_dataloader,
                     max_steps_per_epoch |-> max_eval_steps_per_epoch,
                     evaluate_every_n_epochs |-> 1,
                     progress |-> Progress]]

\* len(dataloader): drop_last is False, so the last batch may be short
len(dataloader) ==
    (dataloader.size + dataloader.batch_size - 1) \div dataloader.batch_size

\* the number of samples of batch number i (from 0) of the loader
batch_len(dataloader, i) ==
    IF (i + 1) * dataloader.batch_size <= dataloader.size
    THEN dataloader.batch_size
    ELSE dataloader.size - i * dataloader.batch_size

\* the loop condition of an epoch: the loader is exhausted or the cap reached
is_epoch_done(phase) ==
    \/ phase.progress.num_steps_completed_in_epoch >= len(phase.dataloader)
    \/ /\ phase.max_steps_per_epoch # None
       /\ phase.progress.num_steps_completed_in_epoch >= The(phase.max_steps_per_epoch)

\* lines 177 - 181: main passes the loaders and max_epochs, nothing else
fit_state_of(a, ld) ==
    init_fit_state(ld.train, ld.eval, Some(a.epochs), None, None)

InitFitState ==
    /\ pc = "init_fit_state"
    /\ state' = Some(fit_state_of(The(args), The(loaders)))
    /\ Goto("init_fit_state")
    /\ UNCHANGED <<argv, env_device, args, seeded, device, tb_logger, on_cuda, datasets,
                   loaders, module, train_accuracy, my_unit, stdout, files, exc,
                   allocs, fit_calls>>

\* The objects the callbacks of the unit act on: the unit itself and, through
\* its references, the metric and the logger.
World == [unit |-> The(my_unit), metric |-> The(train_accuracy), logger |-> The(tb_logger)]

Commit(w) ==
    /\ my_unit' = Some(w.unit)
    /\ train_accuracy' = Some(w.metric)
    /\ tb_logger' = Some(w.logger)

\* TensorBoardLogger.log(name, data, step)
log(w, name, data, step) ==
    [w EXCEPT !.logger.entries = Append(@, [name |-> name, data |-> data, step |-> step])]

\* MulticlassAccuracy.update: the batch's samples are added
update(metric, data) == [metric EXCEPT !.num_total = @ + data]

\* MulticlassAccuracy.compute: the accuracy over the samples held, named here
\* by their number
compute(metric) == metric.num_total

\* MulticlassAccuracy.reset
reset(metric) == [metric EXCEPT !.num_total = 0, !.resets = @ + 1]

\* lines 75 - 80
configure_optimizers_and_lr_scheduler(unit) ==
    [optimizer |-> [class |-> "Adadelta", lr |-> unit.lr],
     lr_scheduler |-> [class |-> "StepLR", step_size |-> 1, gamma |-> unit.gamma, last_epoch |-> 0]]

\* lines 82 - 88: the loss of this training step; nothing of the unit changes
compute_loss(st, data) == st.train_state.progress.num_steps_completed + 1

\* lines 90 - 99
update_metrics(w, data, loss) ==
    [w EXCEPT !.unit.loss = Some(loss), !.metric = update(@, data)]

\* lines 101 - 107
log_metrics(w, step, interval) ==
    log(log(w, "loss", w.unit.loss, step), "accuracy", compute(w.metric), step)

\* AutoUnit.on_train_start: the optimizer and the scheduler are configured
\* once the unit is complete
AutoUnit_on_train_start(w) ==
    LET c == configure_optimizers_and_lr_scheduler(w.unit)
    IN  [w EXCEPT !.unit.optimizer = Some(c.optimizer),
                  !.unit.lr_scheduler = Some(c.lr_scheduler)]

\* AutoUnit.train_step: weights are updated every gradient_accumulation_steps
\* steps and on the last batch of the epoch
should_update_weights(unit, st) ==
    LET n == st.train_state.progress.num_steps_completed_in_epoch
    IN  \/ (n + 1) % unit.gradient_accumulation_steps = 0
        \/ n + 1 = len(st.train_state.dataloader)

\* AutoUnit.train_step divides by log_frequency_steps after an optimizer step
train_step_raises(w, st) ==
    should_update_weights(w.unit, st) /\ w.unit.log_frequency_steps = 0

\* AutoUnit.train_step: compute_loss, update_metrics and, after every
\* log_frequency_steps-th optimizer step, log_metrics
AutoUnit_train_step(w, st) ==
    LET data == batch_len(st.train_state.dataloader,
                          st.train_state.progress.num_steps_completed_in_epoch)
        w1 == update_metrics(w, data, compute_loss(st, data))
        w2 == [w1 EXCEPT !.unit.num_optimizer_steps_completed = @ + 1]
        n == w2.unit.num_optimizer_steps_completed
    IN  IF ~should_update_weights(w.unit, st) THEN w1
        ELSE IF n % w.unit.log_frequency_steps = 0
        THEN log_metrics(w2, n - 1, "step")
        ELSE w2

\* AutoUnit.on_train_epoch_end: the scheduler steps and the epoch's metrics
\* are logged
AutoUnit_on_train_epoch_end(w) ==
    log_metrics([w EXCEPT !.unit.lr_scheduler =
                               {[s EXCEPT !.last_epoch = @ + 1] : s \in @}],
                w.unit.num_optimizer_steps_completed, "epoch")

\* A variant of on_train_epoch_end: the metric is not reset.
on_train_epoch_end_no_reset(w) == AutoUnit_on_train_epoch_end(w)

\* lines 109 - 112
on_train_epoch_end(w) ==
    [AutoUnit_on_train_epoch_end(w) EXCEPT !.metric = reset(@)]

\* A variant of eval_step: the evaluation batch also updates the training
\* metrics.
eval_step_updating(w, st, data) ==
    update_metrics(log(w, "evaluation loss", st.eval_state.progress.num_steps_completed + 1,
                       st.eval_state.progress.num_steps_completed),
                   data, st.eval_state.progress.num_steps_completed + 1)

\* lines 114 - 121: the loss of evaluation step k is k
eval_step(w, st, data) ==
    log(w, "evaluation loss", st.eval_state.progress.num_steps_completed + 1,
        st.eval_state.progress.num_steps_completed)

\* ------------------------------------------------------- fit (line 183)

FitPcs == {"train_loop", "train_epoch", "eval_epoch"}

\* line 183: main calls fit, which starts training
Fit ==
    /\ pc = "fit"
    /\ fit_calls' = fit_calls + 1
    /\ Commit(AutoUnit_on_train_start(World))
    /\ pc' = "train_loop"
    /\ UNCHANGED <<argv, env_device, args, seeded, device, on_cuda, datasets, loaders,
                   module, state, stdout, files, events, exc, allocs>>

\* the loop over epochs is done when max_epochs of them are completed
is_done(st) ==
    st.train_state.progress.num_epochs_completed >= The(st.train_state.max_epochs)

TrainEpochStart ==
    /\ pc = "train_loop"
    /\ ~is_done(The(state))
    /\ pc' = "train_epoch"
    /\ UNCHANGED <<argv, env_device, args, seeded, device, tb_logger, on_cuda, datasets,
                   loaders, module, train_accuracy, my_unit, state, stdout,
                   files, events, exc, allocs, fit_calls>>

\* fit returns to main
FitReturn ==
    /\ pc = "train_loop"
    /\ is_done(The(state))
    /\ Goto("fit")
    /\ UNCHANGED <<argv, env_device, args, seeded, device, tb_logger, on_cuda, datasets,
                   loaders, module, train_accuracy, my_unit, state, stdout,
                   files, exc, allocs, fit_calls>>

TrainStep ==
    /\ pc = "train_epoch"
    /\ ~is_epoch_done(The(state).train_state)
    /\ IF train_step_raises(World, The(state))
       THEN /\ pc' = "raised"
            /\ exc' = Some("fit")
            /\ UNCHANGED <<tb_logger, train_accuracy, my_unit, state>>
       ELSE /\ Commit(AutoUnit_train_step(World, The(state)))
            /\ state' = {[st EXCEPT !.train_state.progress = increment_step(@)] : st \in state}
            /\ UNCHANGED <<pc, exc>>
    /\ UNCHANGED <<argv, env_device, args, seeded, device, on_cuda, datasets, loaders,
                   module, stdout, files, events, allocs, fit_calls>>

\* the unit's on_train_epoch_end, then the epoch is counted and evaluation
\* follows (evaluate_every_n_epochs is 1)
TrainEpochEnd ==
    /\ pc = "train_epoch"
    /\ is_epoch_done(The(state).train_state)
    /\ Commit(on_train_epoch_end(World))
    /\ state' = {[st EXCEPT !.train_state.progress = increment_epoch(@)] : st \in state}
    /\ pc' = "eval_epoch"
    /\ UNCHANGED <<argv, env_device, args, seeded, device, on_cuda, datasets, loaders,
                   module, stdout, files, events, exc, allocs, fit_calls>>

EvalStep ==
    /\ pc = "eval_epoch"
    /\ ~is_epoch_done(The(state).eval_state)
    /\ Commit(eval_step(World, The(state),
                        batch_len(The(state).eval_state.dataloader,
                                  The(state).eval_state.progress.num_steps_completed_in_epoch)))
    /\ state' = {[st EXCEPT !.eval_state.progress = increment_step(@)] : st \in state}
    /\ UNCHANGED <<pc, argv, env_device, args, seeded, device, on_cuda, datasets, loaders,
                   module, stdout, files, events, exc, allocs, fit_calls>>

EvalEpochEnd ==
    /\ pc = "eval_epoch"
    /\ is_epoch_done(The(state).eval_state)
    /\ state' = {[st EXCEPT !.eval_state.progress = increment_epoch(@)] : st \in state}
    /\ pc' = "train_loop"
    /\ UNCHANGED <<argv, env_device, args, seeded, device, tb_logger, on_cuda, datasets,
                   loaders, module, train_accuracy, my_unit, stdout, files,
                   events, exc, allocs, fit_calls>>

\* ------------------------------------------------- main, after fit

\* line 184
PrintSummary ==
    /\ pc = "print"
    /\ stdout' = Append(stdout, "timer_summary")
    /\ Goto("print")
    /\ UNCHANGED <<argv, env_device, args, seeded, device, tb_logger, on_cuda, datasets,
                   loaders, module, train_accuracy, my_unit, state, files, exc,
                   allocs, fit_calls>>

\* A variant of should_save: the model is saved whatever the flag.
should_save_always(a) == TRUE

\* line 186
should_save(a) == a.save_model

\* line 187: the parameters of main's module go to the file
saved_file(net) == [path |-> ModelPath, state_dict_of |-> net.id]

\* lines 186 - 187
SaveModel ==
    /\ pc = "save_model"
    /\ files' = IF should_save(The(args))
                THEN files \cup {saved_file(The(module))}
                ELSE files
    /\ Goto("save_model")
    /\ UNCHANGED <<argv, env_device, args, seeded, device, tb_logger, on_cuda, datasets,
                   loaders, module, train_accuracy, my_unit, state, stdout, exc,
                   allocs, fit_calls>>

\* A construction step, or fit, raises: main has no try, so the exception
\* leaves main at once and nothing after the failing statement runs.
RaisingPcs ==
    {"seed", "init_from_env", "tb_logger", "datasets", "dataloaders", "module",
     "train_accuracy", "my_unit", "init_fit_state", "fit"} \cup FitPcs

\* A variant of propagate: the exception is swallowed and main goes on to
\* print the summary.
propagate_swallowed(at) == "print"

\* where control goes when the statement at raises: out of main
propagate(at) == "raised"

Raise ==
    /\ pc \in RaisingPcs
    /\ pc' = propagate(pc)
    /\ exc' = Some(IF pc \in FitPcs THEN "fit" ELSE pc)
    /\ UNCHANGED <<argv, env_device, args, seeded, device, tb_logger, on_cuda, datasets,
                   loaders, module, train_accuracy, my_unit, state, stdout,
                   files, events, allocs, fit_calls>>

Next ==
    \/ GetArgs
    \/ Seed
    \/ InitFromEnv
    \/ MpsCheck
    \/ TbLogger
    \/ OnCuda
    \/ Datasets
    \/ DataLoaders
    \/ Module
    \/ TrainAccuracy
    \/ MyUnitStmt
    \/ InitFitState
    \/ Fit
    \/ TrainEpochStart
    \/ TrainStep
    \/ TrainEpochEnd
    \/ EvalStep
    \/ EvalEpochEnd
    \/ FitReturn
    \/ PrintSummary
    \/ SaveModel
    \/ Raise

Spec == Init /\ [][Next]_vars

\* ------------------------------------------------------------ properties

Unit == The(my_unit)
Metric == The(train_accuracy)
Entries == The(tb_logger).entries
TrainProgress == The(state).train_state.progress
EvalProgress == The(state).eval_state.progress
FitReturned == \E i \in DOMAIN events : events[i] = "fit"
AfterFit == {"print", "save_model", "done"}

\* C1: the training accuracy metric is reset once per training epoch: its
\* number of reset() calls always equals the number of training epochs
\* completed (so no callback other than on_train_epoch_end resets it), it
\* holds no samples right after on_train_epoch_end and until the next training
\* step, and once fit has returned the resets number args.epochs.
C1_ResetOncePerEpoch ==
    /\ (train_accuracy # None /\ state = None) => Metric.resets = 0
    /\ (train_accuracy # None /\ state # None) =>
           /\ Metric.resets = TrainProgress.num_epochs_completed
           /\ (pc \in {"eval_epoch", "train_loop"} => Metric.num_total = 0)
           /\ (pc \in AfterFit => Metric.resets = The(args).epochs)

\* Two epochs with training batches were run and the metric was reset twice.
C1_Witness ==
    /\ pc = "done"
    /\ Metric.resets = 2
    /\ Metric.num_total = 0
    /\ Unit.loss # None

\* C2: evaluation runs at most args.eval_max_steps_per_epoch steps in each
\* evaluation epoch.
C2_EvalStepsCapped ==
    (state # None /\ args # None) =>
        EvalProgress.num_steps_completed_in_epoch <= The(args).eval_max_steps_per_epoch

\* C3: the timing summary is printed at most once and only after fit has
\* returned; a file is written only after the summary and only with
\* --save-model, it is mnist_cnn.pt and holds the parameters of the module the
\* unit trained; when main returns the summary has been printed exactly once
\* and the file exists iff --save-model was given.
C3_OutputArtifacts ==
    /\ Len(stdout) <= 1
    /\ (stdout # << >> => FitReturned)
    /\ (files # {} => Len(stdout) = 1 /\ The(args).save_model)
    /\ \A f \in files :
           /\ f.path = "mnist_cnn.pt"
           /\ f.state_dict_of = The(module).id
           /\ f.state_dict_of = Unit.module
    /\ (pc = "done" =>
           /\ stdout = <<"timer_summary">>
           /\ (files # {} <=> The(args).save_model))

\* main returned after a run with --save-model: summary printed, file written.
C3_Witness ==
    /\ pc = "done"
    /\ The(args).save_model
    /\ stdout = <<"timer_summary">>
    /\ files # {}
    /\ TrainProgress.num_epochs_completed > 0

ConstructionOrder ==
    <<"get_args", "seed", "init_from_env", "mps_check", "tb_logger", "on_cuda",
      "datasets", "dataloaders", "module", "train_accuracy", "my_unit",
      "init_fit_state">>

Constructed ==
    /\ args # None
    /\ seeded # None
    /\ device # None
    /\ tb_logger # None
    /\ datasets # None
    /\ loaders # None
    /\ module # None
    /\ train_accuracy # None
    /\ my_unit # None
    /\ state # None

\* C4: main runs its statements top to bottom: what it has executed is always
\* a prefix of construction, fit, print, save; when fit is called, and all the
\* while it runs, the whole construction is complete and main has done nothing
\* else; fit is called at most once, and exactly once in a run that returns.
C4_ConstructThenOneFit ==
    /\ Len(events) <= Len(ConstructionOrder) + 3
    /\ events = SubSeq(ConstructionOrder \o <<"fit", "print", "save_model">>, 1, Len(events))
    /\ fit_calls <= 1
    /\ (pc \in {"fit"} \cup FitPcs =>
           /\ Constructed
           /\ events = ConstructionOrder
           /\ stdout = << >>
           /\ files = {})
    /\ (pc = "fit" => fit_calls = 0)
    /\ (pc \in FitPcs \cup AfterFit => fit_calls = 1)

\* main returned: everything was constructed and fit was called once.
C4_Witness ==
    /\ pc = "done"
    /\ fit_calls = 1
    /\ Constructed
    /\ Len(events) = 15

RejectedExamples ==
    {<<"--precision", "fp32">>, <<"--epochs", "x">>, <<"--epochs", "0.5">>}

C5_NoArtifacts ==
    /\ (exc # None <=> pc = "raised")
    /\ (exc # None => stdout = << >> /\ files = {} /\ fit_calls <= 1)
    /\ (exc = Some("get_args") =>
           /\ args = None
           /\ seeded = None
           /\ tb_logger = None
           /\ datasets = None
           /\ fit_calls = 0
           /\ events = << >>)
    /\ (argv \in RejectedExamples => pc \in {"get_args", "raised"} /\ events = << >>)

\* C5: a failure leaves main at once and leaves no output: an exception is
\* pending exactly when main has been left by it, nothing runs after it (no
\* retry), and then no summary was printed and no file written; a rejected
\* command line stops main before seeding, the log directory, the datasets
\* and fit.
C5_FailuresSurface == []C5_NoArtifacts /\ [][pc # "raised"]_vars

\* fit raised in a run with --save-model.
C5_Witness ==
    /\ pc = "raised"
    /\ exc = Some("fit")
    /\ The(args).save_model
    /\ fit_calls = 1
    /\ stdout = << >>
    /\ files = {}

\* C6: the parsed flags reach the run unchanged: seed() gets args.seed, the
\* loaders args.batch_size and args.test_batch_size, the fit state
\* max_epochs = args.epochs, the unit args.log_frequency_steps and
\* args.precision, the optimizer lr = args.lr and the scheduler
\* gamma = args.gamma; an integer flag given alone as "2" is parsed as 2; with
\* no flags the values are 1, 64, 1000, 14, 1.0, 0.7, 10 and no precision.
C6_FlagsReachRun ==
    args # None =>
        LET a == The(args) IN
        /\ (seeded # None => seeded = Some(a.seed))
        /\ (loaders # None =>
               /\ The(loaders).train.batch_size = a.batch_size
               /\ The(loaders).eval.batch_size = a.test_batch_size)
        /\ (state # None => The(state).train_state.max_epochs = Some(a.epochs))
        /\ (my_unit # None =>
               /\ Unit.lr = a.lr
               /\ Unit.gamma = a.gamma
               /\ Unit.log_frequency_steps = a.log_frequency_steps
               /\ Unit.precision = a.precision
               /\ \A o \in Unit.optimizer : o.lr = a.lr
               /\ \A l \in Unit.lr_scheduler : l.gamma = a.gamma)
        /\ (fit_calls > 0 => Unit.optimizer # None /\ Unit.lr_scheduler # None)
        /\ (Len(argv) = 2 /\ argv[1] \in IntFlags /\ argv[2] = "2" => a[dest(argv[1])] = 2)
        /\ (argv = << >> =>
               /\ a.seed = 1
               /\ a.batch_size = 64
               /\ a.test_batch_size = 1000
               /\ a.epochs = 14
               /\ a.lr = 10
               /\ a.gamma = 7
               /\ a.log_frequency_steps = 10
               /\ a.precision = None)

\* A run with --batch-size 2 trained: its loader, optimizer and scheduler exist.
C6_Witness ==
    /\ argv = <<"--batch-size", "2">>
    /\ pc = "done"
    /\ The(loaders).train.batch_size = 2
    /\ The(loaders).eval.batch_size = 1000
    /\ Unit.optimizer # None

\* C7: once past the mps check the device is what init_from_env returned,
\* except that mps has become cpu; the metric and the unit hold that device;
\* both loaders pin memory iff it is cuda.
C7_DeviceNeverMps ==
    /\ (device # None /\ pc \notin {"mps_check"} =>
           /\ The(device) # "mps"
           /\ The(device) = (IF The(env_device) = "mps" THEN "cpu" ELSE The(env_device)))
    /\ (train_accuracy # None => Metric.device = The(device))
    /\ (my_unit # None => Unit.device = The(device) /\ Unit.device = Metric.device)
    /\ (loaders # None =>
           /\ The(loaders).train.pin_memory = (The(device) = "cuda")
           /\ The(loaders).eval.pin_memory = (The(device) = "cuda"))

\* init_from_env returned mps and the unit was built.
C7_Witness ==
    /\ env_device = Some("mps")
    /\ my_unit # None
    /\ Unit.device = "cpu"
    /\ ~The(loaders).train.pin_memory

C9_EvalStepFrame ==
    [][(pc = "eval_epoch" /\ ~is_epoch_done(The(state).eval_state) /\ pc' # "raised") =>
           /\ my_unit' = my_unit
           /\ train_accuracy' = train_accuracy
           /\ Len(The(tb_logger').entries) = Len(Entries) + 1
           /\ SubSeq(The(tb_logger').entries, 1, Len(Entries)) = Entries
           /\ The(tb_logger').entries[Len(Entries) + 1].name = "evaluation loss"
           /\ The(tb_logger').entries[Len(Entries) + 1].step = EvalProgress.num_steps_completed]_vars

\* Evaluation steps ran after training steps had set the unit's loss.
C9_Witness ==
    /\ pc = "eval_epoch"
    /\ EvalProgress.num_steps_completed >= 2
    /\ Unit.loss # None
    /\ Entries[Len(Entries)].name = "evaluation loss"

====
